---- MODULE Spec2Model ----
(***************************************************************************)
(* Model of taglogic/src/bool.rs: the lexer `lex`, the recursive-descent   *)
(* parser `AstNode::munch_tokens` and the entry point `Expr::from_string`. *)
(* A string is a sequence of one-character strings.                        *)
(***************************************************************************)
EXTENDS Integers, Sequences, FiniteSets, TLC

VARIABLES pc, input, pos, state, tokens, cur_name, stack, ret, result, calls

vars == <<pc, input, pos, state, tokens, cur_name, stack, ret, result, calls>>

\* ------------------------------------------------------------------------
\* Bounds of the explored inputs
\* ------------------------------------------------------------------------
MaxLen == 4
MaxTokens == 6

\* ------------------------------------------------------------------------
\* BinaryOp
\* ------------------------------------------------------------------------
And == "And"
Or == "Or"
BinaryOps == {And, Or}
None == "None"

as_char(op) == IF op = And THEN "&" ELSE "|"

from_char(c) == IF c = "&" THEN And ELSE IF c = "|" THEN Or ELSE None

from_text(text) ==
    IF text = <<"a", "n", "d">> THEN And
    ELSE IF text = <<"o", "r">> THEN Or
    ELSE None

\* ------------------------------------------------------------------------
\* Characters
\* ------------------------------------------------------------------------
Whitespace == {" ", "\t"}

is_whitespace(c) == c \in Whitespace

UpperToLower ==
    [c \in {"A", "B", "D", "N", "O", "R"} |->
        CASE c = "A" -> "a" [] c = "B" -> "b" [] c = "D" -> "d"
          [] c = "N" -> "n" [] c = "O" -> "o" [] c = "R" -> "r"]

KeepsCase(s) == s

to_ascii_lowercase(s) ==
    [i \in 1..Len(s) |-> IF s[i] \in DOMAIN UpperToLower THEN UpperToLower[s[i]] ELSE s[i]]

\* ------------------------------------------------------------------------
\* Token
\* ------------------------------------------------------------------------
OpenBracket == [type |-> "OpenBracket"]
CloseBracket == [type |-> "CloseBracket"]
InvertTok == [type |-> "Invert"]
NameTok(text) == [type |-> "Name", text |-> text]
BinaryOpTok(op) == [type |-> "BinaryOp", op |-> op]

\* ------------------------------------------------------------------------
\* lex: the three-state character machine
\* ------------------------------------------------------------------------
AnyExpected == [tag |-> "AnyExpected"]
InName == [tag |-> "InName"]
InSymbolBinOp(op) == [tag |-> "InSymbolBinOp", op |-> op]

LexInit == [state |-> AnyExpected, tokens |-> <<>>, cur_name |-> <<>>]

AbsorbsAnySymbol(st, c) == st.tag = "InSymbolBinOp" /\ c \in {"&", "|"}

\* if let InSymbolBinOp(op) = state { state = AnyExpected; if c == op.as_char() { continue; } }
AbsorbsDoubled(st, c) == st.tag = "InSymbolBinOp" /\ c = as_char(st.op)

EndCurTokenNoWhitespace(c) == c \in {"(", ")", "&", "|", "!"}

end_cur_token(c) == c \in {"(", ")", "&", "|", "!"} \/ is_whitespace(c)

\* the token a finished name run becomes
NameOrKeyword(name) ==
    IF from_text(to_ascii_lowercase(name)) # None
    THEN BinaryOpTok(from_text(to_ascii_lowercase(name)))
    ELSE NameTok(name)

\* the `if state == ParseState::InName` block
InNameBlock(l, c) ==
    IF l.state # InName THEN l
    ELSE IF end_cur_token(c)
         THEN [state |-> AnyExpected,
               tokens |-> Append(l.tokens, NameOrKeyword(l.cur_name)),
               cur_name |-> <<>>]
         ELSE [l EXCEPT !.cur_name = Append(l.cur_name, c)]

\* the `if state == ParseState::AnyExpected` block
AnyExpectedBlock(l, c) ==
    IF l.state # AnyExpected THEN l
    ELSE CASE c = "(" -> [l EXCEPT !.tokens = Append(l.tokens, OpenBracket)]
           [] c = ")" -> [l EXCEPT !.tokens = Append(l.tokens, CloseBracket)]
           [] c = "!" -> [l EXCEPT !.tokens = Append(l.tokens, InvertTok)]
           [] c = "&" -> [l EXCEPT !.tokens = Append(l.tokens, BinaryOpTok(And)),
                                   !.state = InSymbolBinOp(And)]
           [] c = "|" -> [l EXCEPT !.tokens = Append(l.tokens, BinaryOpTok(Or)),
                                   !.state = InSymbolBinOp(Or)]
           [] OTHER -> IF is_whitespace(c) THEN l
                       ELSE [l EXCEPT !.state = InName, !.cur_name = <<c>>]

\* one iteration of `for c in s.chars()`
LexStep(l, c) ==
    IF AbsorbsDoubled(l.state, c)
    THEN [l EXCEPT !.state = AnyExpected]
    ELSE LET l1 == IF l.state.tag = "InSymbolBinOp"
                   THEN [l EXCEPT !.state = AnyExpected] ELSE l
         IN  AnyExpectedBlock(InNameBlock(l1, c), c)

RECURSIVE LexFrom(_, _, _)
LexFrom(l, s, i) == IF i > Len(s) THEN l ELSE LexFrom(LexStep(l, s[i]), s, i + 1)

\* lex(s): the loop over all characters, then Ok(tokens)
lex(s) == LexFrom(LexInit, s, 1).tokens

\* ------------------------------------------------------------------------
\* AstNode, ExprData and results
\* ------------------------------------------------------------------------
Name(text) == [node |-> "Name", text |-> text]
Invert(child) == [node |-> "Invert", child |-> child]
Binary(op, left, right) == [node |-> "Binary", op |-> op, left |-> left, right |-> right]

Empty == [kind |-> "Empty"]
HasNodes(ast) == [kind |-> "HasNodes", ast |-> ast]

Ok(v) == [ok |-> TRUE, val |-> v]
Err(e) == [ok |-> FALSE, err |-> e]

ErrEndOfExpression == "unexpected end of expression"
ErrUnexpectedClose == "Unexpected closing bracket"
ErrAfterInvertedName == "invalid token after inverted name"
ErrDoubleInvert == "can't double invert, that would be pointless"
ErrExpectedExpression == "expected expression"
ErrInvertEOF == "Expected token to invert, got EOF"
ErrExpectedClose == "expected closing bracket"
ErrAfterClose == "invald token after closing bracket"
ErrUnexpectedBinaryOp == "Unexpected binary operator"
ErrAfterName == "name followed by invalid token"
ErrExtraTokens == "expected EOF, found extra tokens"
PanicInsert == "panic: insertion index out of bounds"

\* ------------------------------------------------------------------------
\* VecDeque operations
\* ------------------------------------------------------------------------
\* tokens.get(i), zero-based; None when out of range
NoToken == [type |-> "None"]

get(q, i) == IF i < Len(q) THEN q[i + 1] ELSE NoToken

\* tokens.remove(0): the queue afterwards (unchanged when it is empty)
remove0(q) == IF q = <<>> THEN q ELSE Tail(q)

\* tokens.insert(i, t), zero-based; the caller checks CanInsert
insert(q, i, t) == SubSeq(q, 1, i) \o <<t>> \o SubSeq(q, i + 1, Len(q))

CanInsert(q, i) == i <= Len(q)

IsType(t, ty) == t.type = ty

\* ------------------------------------------------------------------------
\* AstNode::munch_tokens as a machine over (tokens, stack, ret).
\* ret = NoRet: a call of munch_tokens is about to dispatch on tokens.
\* ret # NoRet: a call has returned ret to the frame on top of the stack.
\* A frame is the place a recursive call returns to.
\* ------------------------------------------------------------------------
NoRet == [pending |-> TRUE]

InvertFrame == [at |-> "InvertInner"]
BracketFrame == [at |-> "BracketInner"]
BinaryFrame(op, left) == [at |-> "BinaryRight", op |-> op, left |-> left]

Push(stk, f) == <<f>> \o stk

\* tokens.insert(2, Token::CloseBracket) in the Invert arm
InvertCloseIndex == 2

NameCloseIndexPastEnd == InvertCloseIndex + 1

\* tokens.insert(1, Token::CloseBracket) in the Name arm
NameCloseIndex == 1

\* Token::Invert arm, after the Invert was removed: q is the remaining queue
InvertArm(q, stk) ==
    LET t1 == get(q, 1)
        t2 == get(q, 2)
    IN  CASE IsType(t1, "OpenBracket") ->
                [tokens |-> q, stack |-> Push(stk, InvertFrame), ret |-> NoRet]
          [] IsType(t1, "Name") ->
                (CASE IsType(t2, "BinaryOp") ->
                        IF CanInsert(q, InvertCloseIndex)
                        THEN [tokens |-> insert(insert(q, InvertCloseIndex, CloseBracket),
                                                0, OpenBracket),
                              stack |-> stk, ret |-> NoRet]
                        ELSE [tokens |-> q, stack |-> stk, ret |-> Err(PanicInsert)]
                   [] t2 = NoToken \/ IsType(t2, "CloseBracket") ->
                        [tokens |-> remove0(q), stack |-> stk,
                         ret |-> Ok(Invert(Name(t1.text)))]
                   [] OTHER ->
                        [tokens |-> q, stack |-> stk, ret |-> Err(ErrAfterInvertedName)])
          [] IsType(t1, "Invert") ->
                [tokens |-> q, stack |-> stk, ret |-> Err(ErrDoubleInvert)]
          [] t1 = NoToken ->
                [tokens |-> q, stack |-> stk, ret |-> Err(ErrInvertEOF)]
          [] OTHER ->
                [tokens |-> q, stack |-> stk, ret |-> Err(ErrExpectedExpression)]

\* Token::Name arm
NameArm(q, stk) ==
    LET t1 == get(q, 1)
    IN  CASE IsType(t1, "BinaryOp") ->
                IF CanInsert(q, NameCloseIndex)
                THEN [tokens |-> insert(insert(q, NameCloseIndex, CloseBracket),
                                        0, OpenBracket),
                      stack |-> stk, ret |-> NoRet]
                ELSE [tokens |-> q, stack |-> stk, ret |-> Err(PanicInsert)]
          [] t1 = NoToken \/ IsType(t1, "CloseBracket") ->
                [tokens |-> remove0(q), stack |-> stk, ret |-> Ok(Name(q[1].text))]
          [] OTHER ->
                [tokens |-> q, stack |-> stk, ret |-> Err(ErrAfterName)]

CloseBracketArmSkips(q, stk) == [tokens |-> remove0(q), stack |-> stk, ret |-> NoRet]

\* Token::CloseBracket arm
CloseBracketArm(q, stk) == [tokens |-> q, stack |-> stk, ret |-> Err(ErrUnexpectedClose)]

\* entry of munch_tokens: dispatch on tokens.get(0)
Dispatch(q, stk) ==
    LET next == get(q, 0)
    IN  CASE next = NoToken ->
                [tokens |-> q, stack |-> stk, ret |-> Err(ErrEndOfExpression)]
          [] IsType(next, "CloseBracket") -> CloseBracketArm(q, stk)
          [] IsType(next, "Invert") -> InvertArm(remove0(q), stk)
          [] IsType(next, "OpenBracket") ->
                [tokens |-> remove0(q), stack |-> Push(stk, BracketFrame), ret |-> NoRet]
          [] IsType(next, "BinaryOp") ->
                [tokens |-> q, stack |-> stk, ret |-> Err(ErrUnexpectedBinaryOp)]
          [] IsType(next, "Name") -> NameArm(q, stk)

\* Ok(AstNode::Invert(Box::new(Self::munch_tokens(tokens)?)))
AfterInvertInner(q, stk, r) ==
    [tokens |-> q, stack |-> Tail(stk),
     ret |-> IF r.ok THEN Ok(Invert(r.val)) ELSE r]

\* Token::OpenBracket arm after `let result = Self::munch_tokens(tokens)?`
AfterBracketInner(q, stk, r) ==
    IF ~r.ok THEN [tokens |-> q, stack |-> Tail(stk), ret |-> r]
    ELSE IF ~IsType(get(q, 0), "CloseBracket")
    THEN [tokens |-> remove0(q), stack |-> Tail(stk), ret |-> Err(ErrExpectedClose)]
    ELSE LET q1 == remove0(q)
             t0 == get(q1, 0)
         IN  CASE IsType(t0, "BinaryOp") ->
                     [tokens |-> q1, stack |-> Push(Tail(stk), BinaryFrame(t0.op, r.val)),
                      ret |-> NoRet]
               [] t0 = NoToken \/ IsType(t0, "CloseBracket") ->
                     [tokens |-> q1, stack |-> Tail(stk), ret |-> r]
               [] OTHER ->
                     [tokens |-> q1, stack |-> Tail(stk), ret |-> Err(ErrAfterClose)]

AfterBinaryRightKeepsFrame(q, stk, r) ==
    IF ~r.ok THEN [tokens |-> q, stack |-> stk, ret |-> r]
    ELSE [tokens |-> remove0(q), stack |-> Tail(stk),
          ret |-> Ok(Binary(stk[1].op, stk[1].left, r.val))]

\* Ok(Binary(op, result, munch_tokens(tokens)?)), then tokens.remove(0)
AfterBinaryRight(q, stk, r) ==
    IF ~r.ok THEN [tokens |-> q, stack |-> Tail(stk), ret |-> r]
    ELSE [tokens |-> remove0(q), stack |-> Tail(stk),
          ret |-> Ok(Binary(stk[1].op, stk[1].left, r.val))]

\* a return into the frame on top of the stack
Resume(q, stk, r) ==
    CASE stk[1].at = "InvertInner" -> AfterInvertInner(q, stk, r)
      [] stk[1].at = "BracketInner" -> AfterBracketInner(q, stk, r)
      [] stk[1].at = "BinaryRight" -> AfterBinaryRight(q, stk, r)

MunchStep(c) ==
    IF c.ret = NoRet THEN Dispatch(c.tokens, c.stack)
    ELSE Resume(c.tokens, c.stack, c.ret)

MunchDone(c) == c.ret # NoRet /\ c.stack = <<>>

RECURSIVE MunchRun(_)
MunchRun(c) == IF MunchDone(c) THEN c ELSE MunchRun(MunchStep(c))

\* munch_tokens(tokens): the returned value and the queue left behind
munch_tokens(q) == MunchRun([tokens |-> q, stack |-> <<>>, ret |-> NoRet])

\* ------------------------------------------------------------------------
\* Expr::from_string
\* ------------------------------------------------------------------------
FinishIgnoringRest(r, q) == IF ~r.ok THEN r ELSE Ok(HasNodes(r.val))

\* after `let ast = AstNode::munch_tokens(&mut tokens)?`
Finish(r, q) ==
    IF ~r.ok THEN r
    ELSE IF q # <<>> THEN Err(ErrExtraTokens)
    ELSE Ok(HasNodes(r.val))

SkipsParserNever(q) == FALSE

\* `if tokens.is_empty() { return Ok(Self(ExprData::Empty)); }`
SkipsParser(q) == q = <<>>

from_tokens(q) ==
    IF SkipsParser(q) THEN Ok(Empty)
    ELSE LET m == munch_tokens(q) IN Finish(m.ret, m.tokens)

from_string(s) == from_tokens(lex(s))

\* ------------------------------------------------------------------------
\* The explored inputs: every string of at most MaxLen characters over Chars,
\* and the spelling of every sequence of at most MaxTokens lexemes
\* ------------------------------------------------------------------------
Chars == {"(", ")", "!", "&", "|", " ", "\t", "a", "o", "r", "O"}

Lexemes == {<<"(">>, <<")">>, <<"!">>, <<"&">>, <<"a", " ">>}

SeqsUpTo(S, n) == UNION {[1..k -> S] : k \in 0..n}

RECURSIVE Concat(_)
Concat(ss) == IF ss = <<>> THEN <<>> ELSE Head(ss) \o Concat(Tail(ss))

Inputs == SeqsUpTo(Chars, MaxLen) \cup {Concat(ls) : ls \in SeqsUpTo(Lexemes, MaxTokens)}

\* ------------------------------------------------------------------------
\* The program: from_string(input), one character and one parser step at a time
\* ------------------------------------------------------------------------
Init ==
    /\ input \in Inputs
    /\ pc = "lex"
    /\ pos = 0
    /\ state = LexInit.state
    /\ tokens = LexInit.tokens
    /\ cur_name = LexInit.cur_name
    /\ stack = <<>>
    /\ ret = NoRet
    /\ result = NoRet
    /\ calls = 0

\* one iteration of the loop of lex
LexChar ==
    /\ pc = "lex"
    /\ pos < Len(input)
    /\ LET l == LexStep([state |-> state, tokens |-> tokens, cur_name |-> cur_name],
                        input[pos + 1])
       IN  /\ state' = l.state
           /\ tokens' = l.tokens
           /\ cur_name' = l.cur_name
    /\ pos' = pos + 1
    /\ UNCHANGED <<pc, input, stack, ret, result, calls>>

\* lex returned no token: from_string returns the empty expression
FromStringEmpty ==
    /\ pc = "lex"
    /\ pos = Len(input)
    /\ SkipsParser(tokens)
    /\ result' = Ok(Empty)
    /\ pc' = "done"
    /\ UNCHANGED <<input, pos, state, tokens, cur_name, stack, ret, calls>>

\* lex returned tokens: from_string calls munch_tokens
FromStringParse ==
    /\ pc = "lex"
    /\ pos = Len(input)
    /\ ~SkipsParser(tokens)
    /\ pc' = "munch"
    /\ UNCHANGED <<input, pos, state, tokens, cur_name, stack, ret, result, calls>>

\* a call of munch_tokens runs up to its return or its next recursive call
MunchCall ==
    /\ pc = "munch"
    /\ ret = NoRet
    /\ LET c == Dispatch(tokens, stack)
       IN  /\ tokens' = c.tokens
           /\ stack' = c.stack
           /\ ret' = c.ret
    /\ calls' = calls + 1
    /\ UNCHANGED <<pc, input, pos, state, cur_name, result>>

\* a recursive call returned: its caller runs up to its return or next call
MunchReturn ==
    /\ pc = "munch"
    /\ ret # NoRet
    /\ stack # <<>>
    /\ LET c == Resume(tokens, stack, ret)
       IN  /\ tokens' = c.tokens
           /\ stack' = c.stack
           /\ ret' = c.ret
    /\ UNCHANGED <<pc, input, pos, state, cur_name, result, calls>>

\* the top-level munch_tokens returned to from_string
FromStringFinish ==
    /\ pc = "munch"
    /\ ret # NoRet
    /\ stack = <<>>
    /\ result' = Finish(ret, tokens)
    /\ pc' = "done"
    /\ UNCHANGED <<input, pos, state, tokens, cur_name, stack, ret, calls>>

Next ==
    \/ LexChar
    \/ FromStringEmpty
    \/ FromStringParse
    \/ MunchCall
    \/ MunchReturn
    \/ FromStringFinish

Spec == Init /\ [][Next]_vars

TypeOK ==
    /\ pc \in {"lex", "munch", "done"}
    /\ pos \in 0..Len(input)
    /\ pc = "done" => result = from_string(input)

\* ------------------------------------------------------------------------
\* Vocabulary of the properties
\* ------------------------------------------------------------------------
Delimiters == {"(", ")", "&", "|", "!"}

\* a name: a non-empty run without whitespace or delimiter that is no keyword
IsNameRun(s) ==
    /\ s # <<>>
    /\ \A i \in 1..Len(s) : s[i] \notin Delimiters /\ ~is_whitespace(s[i])
    /\ from_text(to_ascii_lowercase(s)) = None

IsBlank(s) == \A i \in 1..Len(s) : is_whitespace(s[i])

NoAst == [node |-> "None"]

\* the AST a result carries, NoAst for an error or the empty expression
AstOf(r) == IF r.ok /\ r.val.kind = "HasNodes" THEN r.val.ast ELSE NoAst

Done == pc = "done"

\* ------------------------------------------------------------------------
\* C1: negation binds to the name alone: from_string on `!n op m` returns
\* Ok with Binary(op, Invert(Name(n)), Name(m)) for all names n, m and every
\* operator op.
\* ------------------------------------------------------------------------
C1_NegationBindsToName ==
    Done =>
        LET ts == lex(input)
        IN  /\ Len(ts) = 4
            /\ IsType(ts[1], "Invert") /\ IsType(ts[2], "Name")
            /\ IsType(ts[3], "BinaryOp") /\ IsType(ts[4], "Name")
            => result = Ok(HasNodes(Binary(ts[3].op, Invert(Name(ts[2].text)),
                                           Name(ts[4].text))))

\* ------------------------------------------------------------------------
\* C2: every binary construction parses as (left operand) OP (parse of the
\* entire remainder): `n op m` gives Binary(op, Name(n), Name(m)), `(n) op m`
\* the same, and `n op1 m op2 k` gives
\* Binary(op1, Name(n), Binary(op2, Name(m), Name(k))).
\* ------------------------------------------------------------------------
TypesOf(ts) == [i \in 1..Len(ts) |-> ts[i].type]

C2_BinaryIsLeftThenRemainder ==
    Done =>
        LET ts == lex(input)
        IN  /\ TypesOf(ts) = <<"Name", "BinaryOp", "Name">>
                => result = Ok(HasNodes(Binary(ts[2].op, Name(ts[1].text), Name(ts[3].text))))
            /\ TypesOf(ts) = <<"OpenBracket", "Name", "CloseBracket", "BinaryOp", "Name">>
                => result = Ok(HasNodes(Binary(ts[4].op, Name(ts[2].text), Name(ts[5].text))))
            /\ TypesOf(ts) = <<"Name", "BinaryOp", "Name", "BinaryOp", "Name">>
                => result = Ok(HasNodes(Binary(ts[2].op, Name(ts[1].text),
                                   Binary(ts[4].op, Name(ts[3].text), Name(ts[5].text)))))

\* ------------------------------------------------------------------------
\* C3: for every non-empty name n, from_string(n) returns Ok with the
\* single-node AST Name(n), case preserved.
\* ------------------------------------------------------------------------
C3_LoneNameParses ==
    Done /\ IsNameRun(input) => result = Ok(HasNodes(Name(input)))

\* ------------------------------------------------------------------------
\* C4: negating an operand yields Invert of that operand: `!n` gives
\* Ok(Invert(Name(n))), and `!(e)` gives Ok(Invert(t)) for every e that
\* parses to the AST t.
\* ------------------------------------------------------------------------
C4_NegatedOperand ==
    Done =>
        LET ts == lex(input)
            e == SubSeq(ts, 3, Len(ts) - 1)
        IN  /\ TypesOf(ts) = <<"Invert", "Name">>
                => result = Ok(HasNodes(Invert(Name(ts[2].text))))
            /\ Len(ts) >= 4 /\ IsType(ts[1], "Invert") /\ IsType(ts[2], "OpenBracket")
               /\ IsType(ts[Len(ts)], "CloseBracket") /\ AstOf(from_tokens(e)) # NoAst
                => result = Ok(HasNodes(Invert(AstOf(from_tokens(e)))))

\* ------------------------------------------------------------------------
\* C5: double negation is rejected: `!!n` fails with the double-negation
\* error, no input whose token sequence has two adjacent Invert tokens is
\* accepted, and no returned AST has an Invert node whose child is an Invert.
\* ------------------------------------------------------------------------
RECURSIVE HasDoubleInvert(_)
HasDoubleInvert(t) ==
    CASE t.node = "Invert" -> t.child.node = "Invert" \/ HasDoubleInvert(t.child)
      [] t.node = "Binary" -> HasDoubleInvert(t.left) \/ HasDoubleInvert(t.right)
      [] OTHER -> FALSE

AdjacentInverts(ts) ==
    \E i \in 1..Len(ts) - 1 : IsType(ts[i], "Invert") /\ IsType(ts[i + 1], "Invert")

C5_DoubleNegationRejected ==
    Done =>
        /\ TypesOf(lex(input)) = <<"Invert", "Invert", "Name">>
            => result = Err(ErrDoubleInvert)
        /\ AdjacentInverts(lex(input)) => ~result.ok
        /\ ~HasDoubleInvert(AstOf(result))

\* ------------------------------------------------------------------------
\* The grammar of section 6 on token sequences:
\*   expr := atom [binop expr]
\*   atom := name | "!" name | "!" "(" expr ")" | "(" expr ")"
\* ExprEnds(ts, i) is the set of j such that ts[i..j-1] is an expr.
\* ------------------------------------------------------------------------
RECURSIVE ExprEnds(_, _), AtomEnds(_, _)
AtomEnds(ts, i) ==
    LET Bracketed(k) == {j + 1 : j \in {e \in ExprEnds(ts, k) :
                                          e <= Len(ts) /\ IsType(ts[e], "CloseBracket")}}
    IN  IF i > Len(ts) THEN {}
        ELSE CASE IsType(ts[i], "Name") -> {i + 1}
               [] IsType(ts[i], "OpenBracket") -> Bracketed(i + 1)
               [] IsType(ts[i], "Invert") /\ i < Len(ts) ->
                     (CASE IsType(ts[i + 1], "Name") -> {i + 2}
                        [] IsType(ts[i + 1], "OpenBracket") -> Bracketed(i + 2)
                        [] OTHER -> {})
               [] OTHER -> {}

ExprEnds(ts, i) ==
    LET A == AtomEnds(ts, i)
    IN  A \cup UNION {ExprEnds(ts, j + 1) :
                        j \in {a \in A : a <= Len(ts) /\ IsType(ts[a], "BinaryOp")}}

IsExpr(ts) == Len(ts) + 1 \in ExprEnds(ts, 1)

\* the tokens of a string, its last name included (section 4.1: the end of
\* the input ends a name as a delimiter does)
TokensOf(s) == lex(s \o <<" ">>)

CountType(ts, ty) == Cardinality({i \in 1..Len(ts) : IsType(ts[i], ty)})

RECURSIVE CountNodes(_, _)
CountNodes(t, kind) ==
    (IF t.node = kind THEN 1 ELSE 0)
    + (CASE t.node = "Invert" -> CountNodes(t.child, kind)
         [] t.node = "Binary" -> CountNodes(t.left, kind) + CountNodes(t.right, kind)
         [] OTHER -> 0)

\* ------------------------------------------------------------------------
\* C6: from_string returns Ok only when the whole input was consumed into
\* the AST: an input that is a complete expression followed by at least one
\* further token returns an error, and an accepted parse leaves no token in
\* the queue and holds every name, negation and operator of the input.
\* ------------------------------------------------------------------------
C6_WholeInputConsumed ==
    Done =>
        LET ts == TokensOf(input)
        IN  /\ (\E k \in 1..Len(ts) - 1 : IsExpr(SubSeq(ts, 1, k))) /\ ~IsExpr(ts)
                => ~result.ok
            /\ AstOf(result) # NoAst
                => /\ tokens = <<>>
                   /\ CountNodes(AstOf(result), "Name") = CountType(ts, "Name")
                   /\ CountNodes(AstOf(result), "Invert") = CountType(ts, "Invert")
                   /\ CountNodes(AstOf(result), "Binary") = CountType(ts, "BinaryOp")

\* ------------------------------------------------------------------------
\* C7: for every string of zero or more whitespace characters from_string
\* returns Ok with the empty expression, and munch_tokens is never called.
\* ------------------------------------------------------------------------
C7_BlankInputIsEmptyExpr ==
    IsBlank(input) =>
        /\ pc # "munch"
        /\ calls = 0
        /\ Done => result = Ok(Empty)

C7_Witness ==
    Done /\ IsBlank(input) /\ Len(input) >= 2 /\ result = Ok(Empty) /\ calls = 0

\* ------------------------------------------------------------------------
\* C8: replacing an occurrence of the operator `&` by `&&` or by the
\* whitespace-delimited keyword `and` in any letter case (likewise `|` by
\* `||` or `or`) leaves lex's token sequence and from_string's result
\* unchanged, also where the operator is the last lexeme of the input.
\* ------------------------------------------------------------------------
StateAfter(s, i) == LexFrom(LexInit, SubSeq(s, 1, i), 1).state

\* s[i] is an operator written as a single symbol
SingleSymbolAt(s, i) ==
    /\ s[i] \in {"&", "|"}
    /\ ~AbsorbsDoubled(StateAfter(s, i - 1), s[i])
    /\ i < Len(s) => s[i + 1] # s[i]

Keywords(c) ==
    IF c = "&" THEN {<<"a", "n", "d">>, <<"A", "N", "D">>, <<"A", "n", "d">>}
    ELSE {<<"o", "r">>, <<"O", "R">>, <<"o", "R">>}

Respellings(s, i) ==
    {<<s[i], s[i]>>}
    \cup {<<" ">> \o k \o <<" ">> : k \in Keywords(s[i])}
    \cup (IF i = Len(s) THEN {<<" ">> \o k : k \in Keywords(s[i])} ELSE {})

Replace(s, i, w) == SubSeq(s, 1, i - 1) \o w \o SubSeq(s, i + 1, Len(s))

C8_SymbolKeywordEquivalence ==
    Done =>
        \A i \in 1..Len(input) :
            SingleSymbolAt(input, i) =>
                \A w \in Respellings(input, i) :
                    /\ lex(Replace(input, i, w)) = lex(input)
                    /\ from_string(Replace(input, i, w)) = result

\* ------------------------------------------------------------------------
\* Whitespace between lexemes
\* ------------------------------------------------------------------------
IsNameChar(c) == c \notin Delimiters /\ ~is_whitespace(c)

\* the number of consecutive characters equal to s[i] that end at position i
RECURSIVE RunBack(_, _)
RunBack(s, i) == IF i > 1 /\ s[i - 1] = s[i] THEN 1 + RunBack(s, i - 1) ELSE 1

\* x at position i is an operator symbol not yet paired into a doubled symbol
\* and y is the same symbol: written next to each other they are one `&&`
JoinsDoubled(s, i, y) == s[i] \in {"&", "|"} /\ y = s[i] /\ RunBack(s, i) % 2 = 1

\* positions i and i + 1 lie between two lexemes, with a token on either side
BetweenLexemes(s, i) ==
    /\ ~(IsNameChar(s[i]) /\ IsNameChar(s[i + 1]))
    /\ ~JoinsDoubled(s, i, s[i + 1])
    /\ \E k \in 1..i : ~is_whitespace(s[k])
    /\ \E k \in (i + 1)..Len(s) : ~is_whitespace(s[k])

WhitespaceRuns == {<<" ">>, <<"\t">>, <<" ", " ">>}

InsertWs(s, i, w) == SubSeq(s, 1, i) \o w \o SubSeq(s, i + 1, Len(s))

\* s[i..j] is a run of whitespace between two characters of tokens of which
\* at most one is a name or keyword
SeparatingRun(s, i, j) ==
    /\ 1 < i /\ i <= j /\ j < Len(s)
    /\ \A k \in i..j : is_whitespace(s[k])
    /\ ~is_whitespace(s[i - 1]) /\ ~is_whitespace(s[j + 1])
    /\ ~(IsNameChar(s[i - 1]) /\ IsNameChar(s[j + 1]))

RemoveRun(s, i, j) == SubSeq(s, 1, i - 1) \o SubSeq(s, j + 1, Len(s))

InsertionKeepsTokens(s) ==
    \A i \in 1..Len(s) - 1 :
        BetweenLexemes(s, i) => \A w \in WhitespaceRuns : lex(InsertWs(s, i, w)) = lex(s)

\* ------------------------------------------------------------------------
\* C9 as stated: inserting whitespace between two adjacent tokens' lexemes,
\* or removing a run of whitespace that separates two tokens of which at
\* most one is a name/keyword, does not change lex's token sequence.
\* ------------------------------------------------------------------------
C9_Original ==
    Done =>
        /\ InsertionKeepsTokens(input)
        /\ \A i \in 1..Len(input), j \in 1..Len(input) :
                SeparatingRun(input, i, j) => lex(RemoveRun(input, i, j)) = lex(input)

\* ------------------------------------------------------------------------
\* C9 amended: inserting whitespace between two adjacent tokens' lexemes, or
\* removing a run of whitespace that separates two tokens of which at most
\* one is a name/keyword and which are not the same operator symbol that the
\* removal joins into one doubled symbol (`& &` to `&&`, `| |` to `||`),
\* does not change lex's token sequence.
\* ------------------------------------------------------------------------
C9_WhitespaceInvariance ==
    Done =>
        /\ InsertionKeepsTokens(input)
        /\ \A i \in 1..Len(input), j \in 1..Len(input) :
                SeparatingRun(input, i, j) /\ ~JoinsDoubled(input, i - 1, input[j + 1])
                    => lex(RemoveRun(input, i, j)) = lex(input)

C9_Witness ==
    /\ Done
    /\ Len(lex(input)) >= 2
    /\ \E i \in 1..Len(input), j \in 1..Len(input) :
            /\ SeparatingRun(input, i, j)
            /\ ~JoinsDoubled(input, i - 1, input[j + 1])
            /\ IsNameChar(input[i - 1])
    /\ \E i \in 1..Len(input) - 1 :
            BetweenLexemes(input, i) /\ ~is_whitespace(input[i]) /\ ~is_whitespace(input[i + 1])

\* ------------------------------------------------------------------------
\* C10: bracketing does not change the AST: from_string on `(e)`, `((e))`
\* and `(((e)))` returns the same AST as from_string(e), for every input e.
\* ------------------------------------------------------------------------
Wrap(s) == <<"(">> \o s \o <<")">>

C10_BracketingKeepsAst ==
    Done =>
        /\ AstOf(from_string(Wrap(input))) = AstOf(result)
        /\ AstOf(from_string(Wrap(Wrap(input)))) = AstOf(result)
        /\ AstOf(from_string(Wrap(Wrap(Wrap(input))))) = AstOf(result)

\* ------------------------------------------------------------------------
\* The tokens of a string read off its characters: a token for each bracket
\* and `!`, one BinaryOp for each `&`, `&&`, `|`, `||` (pairs taken from the
\* left), one token for each maximal run of name characters, nothing for
\* whitespace.
\* ------------------------------------------------------------------------
AndSpellings == {<<x, y, z>> : x \in {"a", "A"}, y \in {"n", "N"}, z \in {"d", "D"}}
OrSpellings == {<<x, y>> : x \in {"o", "O"}, y \in {"r", "R"}}

RunToken(run) ==
    IF run \in AndSpellings THEN BinaryOpTok(And)
    ELSE IF run \in OrSpellings THEN BinaryOpTok(Or)
    ELSE NameTok(run)

\* the last position of the maximal run of name characters that starts at i
RECURSIVE RunEnd(_, _)
RunEnd(s, i) == IF i < Len(s) /\ IsNameChar(s[i + 1]) THEN RunEnd(s, i + 1) ELSE i

RECURSIVE TokensFrom(_, _)
TokensFrom(s, i) ==
    IF i > Len(s) THEN <<>>
    ELSE CASE is_whitespace(s[i]) -> TokensFrom(s, i + 1)
           [] s[i] = "(" -> <<OpenBracket>> \o TokensFrom(s, i + 1)
           [] s[i] = ")" -> <<CloseBracket>> \o TokensFrom(s, i + 1)
           [] s[i] = "!" -> <<InvertTok>> \o TokensFrom(s, i + 1)
           [] s[i] = "&" -> <<BinaryOpTok(And)>>
                            \o TokensFrom(s, IF i < Len(s) /\ s[i + 1] = "&" THEN i + 2 ELSE i + 1)
           [] s[i] = "|" -> <<BinaryOpTok(Or)>>
                            \o TokensFrom(s, IF i < Len(s) /\ s[i + 1] = "|" THEN i + 2 ELSE i + 1)
           [] OTHER -> <<RunToken(SubSeq(s, i, RunEnd(s, i)))>>
                       \o TokensFrom(s, RunEnd(s, i) + 1)

EndsDelimited(s) == s # <<>> /\ ~IsNameChar(s[Len(s)])

LexReturns == pc = "lex" /\ pos = Len(input)

\* ------------------------------------------------------------------------
\* C11: for every input whose last character is whitespace or a delimiter,
\* lex returns exactly the tokens of the input in source order: a bracket or
\* Invert token per `(`, `)`, `!`, one BinaryOp per `&`/`&&`/`|`/`||` and per
\* name run equal to `and`/`or` ignoring case, one case-preserved Name per
\* other maximal name run, and no token for whitespace.
\* ------------------------------------------------------------------------
C11_LexReturnsTheTokens ==
    LexReturns /\ EndsDelimited(input) => tokens = TokensFrom(input, 1)

C11_Witness ==
    /\ LexReturns
    /\ EndsDelimited(input)
    /\ \A i \in 1..Len(input) : input[i] \notin {"&", "|"}
    /\ \E i \in 1..Len(input) : input[i] = "O"
    /\ \E i \in 1..Len(tokens) : IsType(tokens[i], "BinaryOp")
    /\ Len(tokens) >= 2
    /\ tokens = TokensFrom(input, 1)

\* ------------------------------------------------------------------------
\* C12: for every input of the form `(` e, where e is a valid expression and
\* the input ends without the matching `)`, from_string fails with the
\* missing-closing-bracket error ("expected closing bracket").
\* ------------------------------------------------------------------------
C12_MissingCloseBracket ==
    Done =>
        LET ts == TokensOf(input)
        IN  Len(ts) >= 2 /\ IsType(ts[1], "OpenBracket") /\ IsExpr(Tail(ts))
                => result = Err(ErrExpectedClose)

\* ------------------------------------------------------------------------
\* C13: for every name n and operator op, from_string on `n op` fails with
\* the premature-end-of-input error ("unexpected end of expression").
\* ------------------------------------------------------------------------
C13_PrematureEndAfterOperator ==
    Done /\ TypesOf(lex(input)) = <<"Name", "BinaryOp">>
        => result = Err(ErrEndOfExpression)

\* ------------------------------------------------------------------------
\* C14: for every input whose first token is CloseBracket, from_string fails
\* with the unexpected-closing-bracket error, whatever tokens follow.
\* ------------------------------------------------------------------------
StartsWithClose(s) == lex(s) # <<>> /\ IsType(lex(s)[1], "CloseBracket")

C14_CloseBracketCannotBegin ==
    Done /\ StartsWithClose(input) => result = Err(ErrUnexpectedClose)

C14_Witness ==
    /\ Done
    /\ StartsWithClose(input)
    /\ Len(lex(input)) >= 3
    /\ IsExpr(Tail(lex(input)))
    /\ result = Err(ErrUnexpectedClose)

\* ------------------------------------------------------------------------
\* C15: when the lexer reaches the end of the input in state InName, the
\* accumulated run is emitted as the final token (a BinaryOp for `and`/`or`
\* in any case, otherwise a Name), as if a delimiter had followed: lex(s)
\* and lex(s followed by one space) return the same tokens for every s.
\* ------------------------------------------------------------------------
C15_EndOfInputFlushesName ==
    LexReturns =>
        /\ tokens = lex(input \o <<" ">>)
        /\ state = InName =>
                tokens # <<>> /\ tokens[Len(tokens)] = RunToken(cur_name)

\* ------------------------------------------------------------------------
\* C16: the Invert rewrite only adds brackets: whenever munch_tokens takes
\* the rewrite-and-redispatch branch for a leading Invert, the queue it
\* re-parses is the queue as it was on entry with one OpenBracket inserted
\* before the Invert and one CloseBracket inserted directly after the Name;
\* the Invert and every other original token are still there, in order.
\* ------------------------------------------------------------------------
\* a step of munch_tokens that starts at a leading Invert and re-dispatches
InvertRewriteStep ==
    /\ pc = "munch" /\ ret = NoRet
    /\ IsType(get(tokens, 0), "Invert")
    /\ ret' = NoRet /\ stack' = stack

C16_InvertRewriteOnlyAddsBrackets ==
    [][InvertRewriteStep =>
        \E k \in 1..Len(tokens) :
            /\ IsType(tokens[k], "Name")
            /\ tokens' = <<OpenBracket>> \o SubSeq(tokens, 1, k) \o <<CloseBracket>>
                         \o SubSeq(tokens, k + 1, Len(tokens))]_vars

\* ------------------------------------------------------------------------
\* C17: doubled-symbol absorption: after `&` (resp. `|`) emits a BinaryOp the
\* lexer is in InSymbolBinOp; an immediately following identical symbol emits
\* no token and returns the state to AnyExpected; a different character is
\* processed exactly once as in AnyExpected; so a run of k identical operator
\* symbols yields ceil(k/2) BinaryOp tokens and `&|` gives And then Or.
\* ------------------------------------------------------------------------
\* the step of lex on the character c == input[pos + 1]
AbsorptionStep ==
    pc = "lex" /\ pos' = pos + 1 =>
        LET c == input[pos + 1]
            same == state.tag = "InSymbolBinOp" /\ c = as_char(state.op)
            fresh == LexStep([state |-> AnyExpected, tokens |-> tokens,
                              cur_name |-> cur_name], c)
        IN  /\ c \in {"&", "|"} /\ ~same
                => /\ Len(tokens') > Len(tokens)
                   /\ tokens'[Len(tokens')] = BinaryOpTok(from_char(c))
                   /\ state' = InSymbolBinOp(from_char(c))
            /\ same => tokens' = tokens /\ state' = AnyExpected
            /\ state.tag = "InSymbolBinOp" /\ ~same
                => /\ state' = fresh.state
                   /\ tokens' = fresh.tokens
                   /\ cur_name' = fresh.cur_name
                   /\ Len(tokens') <= Len(tokens) + 1

\* the input is k >= 1 copies of one operator symbol
IsSymbolRun(s) == s # <<>> /\ s[1] \in {"&", "|"} /\ \A i \in 1..Len(s) : s[i] = s[1]

RunTokens ==
    LexReturns =>
        /\ IsSymbolRun(input)
            => /\ Len(tokens) = (Len(input) + 1) \div 2
               /\ \A i \in 1..Len(tokens) : tokens[i] = BinaryOpTok(from_char(input[1]))
        /\ input = <<"&", "|">> => tokens = <<BinaryOpTok(And), BinaryOpTok(Or)>>

C17_DoubledSymbolAbsorption == [][AbsorptionStep]_vars /\ []RunTokens

C17_Witness ==
    /\ LexReturns
    /\ IsSymbolRun(input)
    /\ Len(input) = 3
    /\ Len(tokens) = 2
    /\ state.tag = "InSymbolBinOp"

\* ------------------------------------------------------------------------
\* from_string is one sequential computation: a step that can be taken is
\* taken
\* ------------------------------------------------------------------------
LiveSpec == Spec /\ WF_vars(Next)

\* ------------------------------------------------------------------------
\* C18: parsing terminates: for every finite token sequence munch_tokens
\* returns (Ok or Err) after finitely many steps, although the rewrite
\* branches insert two tokens and recurse without consuming any, so
\* from_string eventually returns for every input.
\* ------------------------------------------------------------------------
C18_ParsingTerminates == <>Done

\* a parse that went through a rewrite and a recursive call has returned
C18_Witness ==
    /\ Done
    /\ calls >= 4
    /\ Len(lex(input)) >= 3
    /\ \E i \in 1..Len(lex(input)) : IsType(lex(input)[i], "BinaryOp")

\* ------------------------------------------------------------------------
\* C19: the parser never performs an out-of-range queue operation: every
\* tokens.insert(i, ..) of munch_tokens is executed with i <= the current
\* queue length, so no insert panics, for every token sequence from_string
\* passes.
\* ------------------------------------------------------------------------
\* a call of munch_tokens is about to take the rewrite of the Invert arm
AtInvertRewrite ==
    /\ pc = "munch" /\ ret = NoRet
    /\ IsType(get(tokens, 0), "Invert")
    /\ IsType(get(remove0(tokens), 1), "Name")
    /\ IsType(get(remove0(tokens), 2), "BinaryOp")

\* a call of munch_tokens is about to take the rewrite of the Name arm
AtNameRewrite ==
    /\ pc = "munch" /\ ret = NoRet
    /\ IsType(get(tokens, 0), "Name")
    /\ IsType(get(tokens, 1), "BinaryOp")

C19_InsertsAreInRange ==
    /\ AtInvertRewrite => InvertCloseIndex <= Len(remove0(tokens))
    /\ AtNameRewrite => NameCloseIndex <= Len(tokens)
    /\ ret # Err(PanicInsert)
    /\ result # Err(PanicInsert)

C19_Witness ==
    \/ AtInvertRewrite /\ Len(remove0(tokens)) = 3
    \/ AtNameRewrite /\ Len(tokens) = 2 /\ stack # <<>>

\* ------------------------------------------------------------------------
\* C20: accepted inputs have balanced brackets: whenever from_string returns
\* Ok with a non-empty expression, the OpenBracket and CloseBracket tokens of
\* the input are properly nested and equal in number, also for inputs that
\* pass through the Invert arm, where a front token is removed unchecked.
\* ------------------------------------------------------------------------
\* OpenBrackets minus CloseBrackets among the first k tokens
Depth(ts, k) ==
    Cardinality({i \in 1..k : IsType(ts[i], "OpenBracket")})
    - Cardinality({i \in 1..k : IsType(ts[i], "CloseBracket")})

Balanced(ts) == Depth(ts, Len(ts)) = 0 /\ \A k \in 1..Len(ts) : Depth(ts, k) >= 0

C20_AcceptedInputsAreBalanced ==
    Done /\ AstOf(result) # NoAst => Balanced(TokensFrom(input, 1))

C20_Witness ==
    /\ Done
    /\ AstOf(result) # NoAst
    /\ IsType(lex(input)[1], "Invert")
    /\ Depth(lex(input), 3) = 2
    /\ Balanced(TokensFrom(input, 1))

====
